---- MODULE Spec2Model ----
(***************************************************************************)
(* Model of the faux_array attribute macro of the structurray crate        *)
(* (src/src/lib.rs).  One invocation of the macro is a run of the state    *)
(* machine: the argument text and the annotated item are the inputs, each  *)
(* statement of faux_array that can panic is one action, and one iteration *)
(* of the field-generation loop is one action.                             *)
(*                                                                         *)
(* Text is a sequence of one-character strings.  A u32 is a record         *)
(* [hi, lo] of two 16-bit limbs (value = hi * 2^16 + lo), so that the      *)
(* whole u32 range, u32::MAX included, is represented exactly.             *)
(***************************************************************************)
EXTENDS Integers, Sequences, FiniteSets, TLC

VARIABLES
    args,          \* the attribute's argument text (args.to_string())
    actual,        \* the annotated item
    usize_bits,    \* pointer width of the host
    pc,            \* the statement of faux_array about to run
    string_args,   \* the segments the Split iterator has not yet yielded
    first_string,
    arguments,     \* Arguments {field_count, field_type}
    build_length,
    structure,     \* the parsed ItemStruct
    tipe,
    names,
    idents,
    copyscore,
    looper,
    output,        \* the TokenStream returned to the compiler
    diagnostics,   \* the panic messages reported, by error kind
    enc_n,         \* SpecEncode: the argument of encode
    enc_pc,
    enc_out

vars == <<args, actual, usize_bits, pc, string_args, first_string, arguments,
          build_length, structure, tipe, names, idents, copyscore, looper,
          output, diagnostics, enc_n, enc_pc, enc_out>>

pipeline_vars == <<args, actual, usize_bits, pc, string_args, first_string,
                   arguments, build_length, structure, tipe, names, idents,
                   copyscore, looper, output, diagnostics>>

encode_vars == <<enc_n, enc_pc, enc_out>>

(***************************************************************************)
(* Bounds of the model.                                                    *)
(***************************************************************************)
\* longest count segment enumerated character by character
MaxCountLen == 3
\* largest field_count whose generation loop is executed
MaxFieldCount == 64
\* encode is applied to every n in 0..MaxEncodeInput (and to the boundary set)
MaxEncodeInput == 4000

(***************************************************************************)
(* u32 arithmetic on 16-bit limbs.                                         *)
(***************************************************************************)
Limb == 2^16

U32 == [hi : 0..(Limb - 1), lo : 0..(Limb - 1)]

U32FromNat(n) == [hi |-> n \div Limb, lo |-> n % Limb]

U32Zero == [hi |-> 0, lo |-> 0]

U32Max == [hi |-> Limb - 1, lo |-> Limb - 1]

U32Less(a, b) == a.hi < b.hi \/ (a.hi = b.hi /\ a.lo < b.lo)

U32Leq(a, b) == a = b \/ U32Less(a, b)

\* U32Inc with the counter stepped by two
U32Inc_Two(a) ==
    IF a.lo + 2 < Limb THEN [hi |-> a.hi, lo |-> a.lo + 2]
    ELSE [hi |-> (a.hi + 1) % Limb, lo |-> (a.lo + 2) % Limb]

\* looper += 1 on a u32 (wrapping at 2^32)
U32Inc(a) ==
    IF a.lo + 1 < Limb THEN [hi |-> a.hi, lo |-> a.lo + 1]
    ELSE [hi |-> (a.hi + 1) % Limb, lo |-> 0]

\* u32::checked_mul(a, m) for a small multiplier m; ok is FALSE on overflow
U32CheckedMul(a, m) ==
    LET l == a.lo * m
        h == a.hi * m + (l \div Limb)
    IN IF h >= Limb THEN [ok |-> FALSE, val |-> U32Zero]
       ELSE [ok |-> TRUE, val |-> [hi |-> h, lo |-> l % Limb]]

\* u32::checked_add(a, d) for a small addend d; ok is FALSE on overflow
U32CheckedAdd(a, d) ==
    LET l == a.lo + d
        h == a.hi + (l \div Limb)
    IN IF h >= Limb THEN [ok |-> FALSE, val |-> U32Zero]
       ELSE [ok |-> TRUE, val |-> [hi |-> h, lo |-> l % Limb]]

\* quotient and remainder of a u32 by a small divisor d (d < 2^15)
U32DivMod(a, d) ==
    LET r1 == (a.hi % d) * Limb + a.lo
    IN [quot |-> [hi |-> a.hi \div d, lo |-> r1 \div d], rem |-> r1 % d]

\* length of a Vec as a plain number, when the u32 is small
U32Small(a) == a.hi * Limb + a.lo

(***************************************************************************)
(* Text: sequences of one-character strings.                               *)
(***************************************************************************)
DecDigits == <<"0", "1", "2", "3", "4", "5", "6", "7", "8", "9">>

IsDecDigit(c) == \E i \in 1..10 : DecDigits[i] = c

\* char::to_digit(10)
to_digit(c) == (CHOOSE i \in 1..10 : DecDigits[i] = c) - 1

IsWhitespace(c) == c = " "

\* the 62 characters of the Identifier Generation section, least value first
Alphabet ==
    <<"0", "1", "2", "3", "4", "5", "6", "7", "8", "9",
      "a", "b", "c", "d", "e", "f", "g", "h", "i", "j", "k", "l", "m",
      "n", "o", "p", "q", "r", "s", "t", "u", "v", "w", "x", "y", "z",
      "A", "B", "C", "D", "E", "F", "G", "H", "I", "J", "K", "L", "M",
      "N", "O", "P", "Q", "R", "S", "T", "U", "V", "W", "X", "Y", "Z">>

IsAlnum(c) == \E i \in 1..62 : Alphabet[i] = c

IsLetter(c) == \E i \in 11..62 : Alphabet[i] = c

\* str::split(','), collected: the segments between the commas, in order.
\* A text without a comma, the empty text included, is one segment.
RECURSIVE split(_)
split(s) ==
    IF \A i \in 1..Len(s) : s[i] # ","
    THEN <<s>>
    ELSE LET i == CHOOSE k \in 1..Len(s) :
                      s[k] = "," /\ \A j \in 1..(k - 1) : s[j] # ","
         IN <<SubSeq(s, 1, i - 1)>> \o split(SubSeq(s, i + 1, Len(s)))

RECURSIVE trim_start(_)
trim_start(s) ==
    IF s # <<>> /\ IsWhitespace(Head(s)) THEN trim_start(Tail(s)) ELSE s

RECURSIVE trim_end(_)
trim_end(s) ==
    IF s # <<>> /\ IsWhitespace(s[Len(s)])
    THEN trim_end(SubSeq(s, 1, Len(s) - 1)) ELSE s

\* str::trim
trim(s) == trim_end(trim_start(s))

(***************************************************************************)
(* <u32 as FromStr>::from_str: an optional '+', then one or more decimal   *)
(* digits accumulated with checked_mul / checked_add.                      *)
(***************************************************************************)
ParseErr == [ok |-> FALSE, val |-> U32Zero]

\* from_str_digits with wrapping instead of checked arithmetic
RECURSIVE from_str_digits_Wrapping(_, _)
from_str_digits_Wrapping(ds, acc) ==
    IF ds = <<>> THEN [ok |-> TRUE, val |-> acc]
    ELSE IF ~IsDecDigit(Head(ds)) THEN ParseErr
    ELSE LET l == acc.lo * 10 + to_digit(Head(ds))
             h == (acc.hi * 10 + (l \div Limb)) % Limb
         IN from_str_digits_Wrapping(Tail(ds), [hi |-> h, lo |-> l % Limb])

RECURSIVE from_str_digits(_, _)
from_str_digits(ds, acc) ==
    IF ds = <<>> THEN [ok |-> TRUE, val |-> acc]
    ELSE IF ~IsDecDigit(Head(ds)) THEN ParseErr
    ELSE LET m == U32CheckedMul(acc, 10)
         IN IF ~m.ok THEN ParseErr
            ELSE LET a == U32CheckedAdd(m.val, to_digit(Head(ds)))
                 IN IF ~a.ok THEN ParseErr
                    ELSE from_str_digits(Tail(ds), a.val)

from_str(src) ==
    IF src = <<>> THEN ParseErr
    ELSE IF Len(src) = 1 /\ Head(src) \in {"+", "-"} THEN ParseErr
    ELSE IF Head(src) = "+" THEN from_str_digits(Tail(src), U32Zero)
    ELSE from_str_digits(src, U32Zero)

(***************************************************************************)
(* TokenStream::from_str: the text as tokens.  A token is the text of an   *)
(* identifier or literal (a maximal alphanumeric run) or one punctuation   *)
(* character; whitespace separates tokens.  Lexing fails when a delimiter  *)
(* is left open or closed without being opened.                            *)
(***************************************************************************)
RECURSIVE alnum_run(_)
alnum_run(s) ==
    IF s # <<>> /\ IsAlnum(Head(s)) THEN 1 + alnum_run(Tail(s)) ELSE 0

RECURSIVE tokens(_)
tokens(s) ==
    IF s = <<>> THEN <<>>
    ELSE IF IsWhitespace(Head(s)) THEN tokens(Tail(s))
    ELSE IF IsAlnum(Head(s))
         THEN LET n == alnum_run(s)
              IN <<SubSeq(s, 1, n)>> \o tokens(SubSeq(s, n + 1, Len(s)))
    ELSE <<(<<Head(s)>>)>> \o tokens(Tail(s))

RECURSIVE delimiters_balanced(_, _)
delimiters_balanced(s, depth) ==
    IF s = <<>> THEN depth = 0
    ELSE IF Head(s) = "(" THEN delimiters_balanced(Tail(s), depth + 1)
    ELSE IF Head(s) = ")"
         THEN depth > 0 /\ delimiters_balanced(Tail(s), depth - 1)
    ELSE delimiters_balanced(Tail(s), depth)

token_stream_from_str(s) ==
    IF delimiters_balanced(s, 0) THEN [ok |-> TRUE, toks |-> tokens(s)]
    ELSE [ok |-> FALSE, toks |-> <<>>]

(***************************************************************************)
(* syn's parser of a Type, on the types the inputs use: a path segment     *)
(* with optional angle-bracketed arguments, a parenthesised list, the      *)
(* never type.  parse_type returns the position after the type, 0 when no  *)
(* type starts at p.                                                       *)
(***************************************************************************)
IsIdentToken(t) == t # <<>> /\ IsLetter(Head(t))

RECURSIVE parse_type(_, _)
RECURSIVE parse_type_list(_, _, _)
parse_type(t, p) ==
    IF p > Len(t) THEN 0
    ELSE IF IsIdentToken(t[p])
         THEN IF p + 1 <= Len(t) /\ t[p + 1] = <<"<">>
              THEN parse_type_list(t, p + 2, <<">">>)
              ELSE p + 1
    ELSE IF t[p] = <<"(">>
         THEN IF p + 1 <= Len(t) /\ t[p + 1] = <<")">>
              THEN p + 2
              ELSE parse_type_list(t, p + 1, <<")">>)
    ELSE IF t[p] = <<"!">> THEN p + 1
    ELSE 0

parse_type_list(t, p, close) ==
    LET q == parse_type(t, p)
    IN IF q = 0 \/ q > Len(t) THEN 0
       ELSE IF t[q] = close THEN q + 1
       ELSE IF t[q] = <<",">> THEN parse_type_list(t, q + 1, close)
       ELSE 0

\* <Arguments as Parse>::parse through syn::parse: the whole stream is one Type
parse_arguments(toks) ==
    IF parse_type(toks, 1) = Len(toks) + 1
    THEN [ok |-> TRUE, field_count |-> U32Zero, field_type |-> toks]
    ELSE [ok |-> FALSE, field_count |-> U32Zero, field_type |-> <<>>]

(***************************************************************************)
(* ascii_basing::encoding::encode: the Base62 digits of n over Alphabet,   *)
(* most significant first; "0" for zero.                                   *)
(***************************************************************************)
\* encode with the least significant digit first
RECURSIVE encode_LeastFirst(_)
encode_LeastFirst(n) ==
    LET dm == U32DivMod(n, 62)
    IN IF dm.quot = U32Zero THEN <<Alphabet[dm.rem + 1]>>
       ELSE <<Alphabet[dm.rem + 1]>> \o encode_LeastFirst(dm.quot)

RECURSIVE encode(_)
encode(n) ==
    LET dm == U32DivMod(n, 62)
    IN IF dm.quot = U32Zero THEN <<Alphabet[dm.rem + 1]>>
       ELSE Append(encode(dm.quot), Alphabet[dm.rem + 1])

(***************************************************************************)
(* The inputs of one invocation.                                           *)
(***************************************************************************)
SeqsUpTo(S, n) == UNION {[1..k -> S] : k \in 0..n}

\* first segments: empty, types, non-types, types with a comma of their own
TypeSegments ==
    {<<>>,
     <<"T">>,
     <<"u", "8">>,
     <<"!", "!">>,
     <<"3">>,
     <<"M", "<", "K", ",", "V", ">">>,
     <<"(", "K", ",", "V", ")">>,
     <<"(", "T">>}

CountChars == {"0", "3", "6", "+", "-", " "}

\* count segments at and around u32::MAX, and non-numeric ones
BoundarySegments ==
    {<<"x">>,
     <<"3", "x">>,
     <<"4", "2", "9", "4", "9", "6", "7", "2", "9", "5">>,
     <<" ", "4", "2", "9", "4", "9", "6", "7", "2", "9", "5", " ">>,
     <<"+", "4", "2", "9", "4", "9", "6", "7", "2", "9", "5">>,
     <<"4", "2", "9", "4", "9", "6", "7", "2", "9", "6">>,
     <<"4", "2", "9", "4", "9", "6", "7", "3", "0", "0">>,
     <<"4", "2", "9", "4", "9", "6", "7", "2", "9", "5", "0">>,
     <<"0", "4", "2", "9", "4", "9", "6", "7", "2", "9", "5">>,
     <<"9", "9", "9", "9", "9", "9", "9", "9", "9", "9", "9">>}

CountSegments == SeqsUpTo(CountChars, MaxCountLen) \cup BoundarySegments

\* a third segment, which the macro never reads
ExtraSegments == {<<"9">>}

ArgTexts ==
    TypeSegments
    \cup {t \o <<",">> \o c : t \in TypeSegments, c \in CountSegments}
    \cup {t \o <<",">> \o c \o <<",">> \o e :
             t \in TypeSegments, c \in CountSegments, e \in ExtraSegments}

\* the annotated item as the token stream `actual` describes it
Items ==
    { [kind |-> "struct", attrs |-> <<"derive(Serialize)">>, vis |-> "",
       ident |-> "Lazyrray", generics |-> <<"T">>, where_clause |-> <<>>,
       fields |-> <<>>],
      [kind |-> "struct", attrs |-> <<"doc", "derive(Serialize)">>,
       vis |-> "pub", ident |-> "Pair", generics |-> <<"K", "V">>,
       where_clause |-> <<"K: Clone">>,
       fields |-> <<[ident |-> <<"o", "l", "d">>, ty |-> <<(<<"u", "8">>)>>]>>],
      [kind |-> "enum", attrs |-> <<>>, vis |-> "", ident |-> "E",
       generics |-> <<>>, where_clause |-> <<>>, fields |-> <<>>] }

\* pointer widths of the hosts a procedural macro runs on
HostPointerWidths == {32, 64}

NoStructure == [kind |-> "none"]

NoOutput == [kind |-> "none"]

NoArguments == [field_count |-> U32Zero, field_type |-> <<>>]

\* 2^32 - 1 in decimal
U32MaxDecimal == <<"4", "2", "9", "4", "9", "6", "7", "2", "9", "5">>

\* the inputs encode is applied to in SpecEncode
EncodeInputs ==
    {U32FromNat(n) : n \in 0..MaxEncodeInput}
    \cup {U32FromNat(n) : n \in {238327, 238328, 14776335, 14776336,
                                 916132831, 916132832}}
    \cup {U32Max, [hi |-> Limb - 1, lo |-> Limb - 2], [hi |-> 1, lo |-> 0],
          [hi |-> 0, lo |-> Limb - 1]}

(***************************************************************************)
(* faux_array, statement by statement.                                     *)
(***************************************************************************)
Init ==
    /\ args \in ArgTexts
    /\ actual \in Items
    /\ usize_bits \in HostPointerWidths
    /\ pc = "start"
    /\ string_args = <<>>
    /\ first_string = <<>>
    /\ arguments = NoArguments
    /\ build_length = U32Zero
    /\ structure = NoStructure
    /\ tipe = <<>>
    /\ names = <<>>
    /\ idents = <<>>
    /\ copyscore = <<>>
    /\ looper = U32Zero
    /\ output = NoOutput
    /\ diagnostics = <<>>
    /\ enc_n = U32Zero
    /\ enc_pc = "idle"
    /\ enc_out = <<>>

\* a failed expect: the macro panics with the message of this kind
Panic(kind) ==
    /\ pc' = "panicked"
    /\ diagnostics' = Append(diagnostics, kind)

\* lines 103-105: split the argument text, take the first segment
SplitArgs ==
    /\ pc = "start"
    /\ LET segs == split(args)
       IN IF segs = <<>>
          THEN /\ Panic("MissingTypeArgument")
               /\ UNCHANGED <<string_args, first_string>>
          ELSE /\ first_string' = Head(segs)
               /\ string_args' = Tail(segs)
               /\ pc' = "parse_type"
               /\ UNCHANGED diagnostics
    /\ UNCHANGED <<args, actual, usize_bits, arguments, build_length,
                   structure, tipe, names, idents, copyscore, looper, output>>
    /\ UNCHANGED encode_vars

\* line 106: the first segment back to a TokenStream, then parsed as a Type
ParseTypeArg ==
    /\ pc = "parse_type"
    /\ LET ts == token_stream_from_str(first_string)
           parsed == parse_arguments(ts.toks)
       IN IF ~ts.ok
          THEN Panic("TokenStreamError") /\ UNCHANGED arguments
          ELSE IF ~parsed.ok
          THEN Panic("InvalidTypeArgument") /\ UNCHANGED arguments
          ELSE /\ arguments' = [field_count |-> parsed.field_count,
                                field_type |-> parsed.field_type]
               /\ pc' = "parse_count"
               /\ UNCHANGED diagnostics
    /\ UNCHANGED <<args, actual, usize_bits, string_args, first_string,
                   build_length, structure, tipe, names, idents, copyscore,
                   looper, output>>
    /\ UNCHANGED encode_vars

\* ParseCountArg with a missing count segment read as the count 0
ParseCountArg_DefaultCount ==
    /\ pc = "parse_count"
    /\ IF string_args = <<>>
       THEN /\ pc' = "convert"
            /\ UNCHANGED <<string_args, arguments, diagnostics>>
       ELSE LET parsed == from_str(trim(Head(string_args)))
            IN /\ string_args' = Tail(string_args)
               /\ IF ~parsed.ok
                  THEN Panic("InvalidCountArgument") /\ UNCHANGED arguments
                  ELSE /\ arguments' =
                              [arguments EXCEPT !.field_count = parsed.val]
                       /\ pc' = "convert"
                       /\ UNCHANGED diagnostics
    /\ UNCHANGED <<args, actual, usize_bits, first_string, build_length,
                   structure, tipe, names, idents, copyscore, looper, output>>
    /\ UNCHANGED encode_vars

\* line 107: the next segment, trimmed and parsed as a u32
ParseCountArg ==
    /\ pc = "parse_count"
    /\ IF string_args = <<>>
       THEN /\ Panic("MissingCountArgument")
            /\ UNCHANGED <<string_args, arguments>>
       ELSE LET parsed == from_str(trim(Head(string_args)))
            IN /\ string_args' = Tail(string_args)
               /\ IF ~parsed.ok
                  THEN Panic("InvalidCountArgument") /\ UNCHANGED arguments
                  ELSE /\ arguments' =
                              [arguments EXCEPT !.field_count = parsed.val]
                       /\ pc' = "convert"
                       /\ UNCHANGED diagnostics
    /\ UNCHANGED <<args, actual, usize_bits, first_string, build_length,
                   structure, tipe, names, idents, copyscore, looper, output>>
    /\ UNCHANGED encode_vars

\* line 108: usize::try_from(field_count)
ConvertCount ==
    /\ pc = "convert"
    /\ IF usize_bits >= 32 \/ arguments.field_count.hi = 0
       THEN /\ build_length' = arguments.field_count
            /\ pc' = "parse_item"
            /\ UNCHANGED diagnostics
       ELSE /\ Panic("CountConversionOverflow")
            /\ UNCHANGED build_length
    /\ UNCHANGED <<args, actual, usize_bits, string_args, first_string,
                   arguments, structure, tipe, names, idents, copyscore,
                   looper, output>>
    /\ UNCHANGED encode_vars

\* ParseItem reporting an item that is not a struct and carrying on
ParseItem_NoAbort ==
    /\ pc = "parse_item"
    /\ diagnostics' = IF actual.kind # "struct"
                      THEN Append(diagnostics, "NotAStruct")
                      ELSE diagnostics
    /\ structure' = actual
    /\ tipe' = arguments.field_type
    /\ names' = <<>>
    /\ idents' = <<>>
    /\ copyscore' = <<>>
    /\ looper' = U32Zero
    /\ pc' = "loop"
    /\ UNCHANGED <<args, actual, usize_bits, string_args, first_string,
                   arguments, build_length, output>>
    /\ UNCHANGED encode_vars

\* lines 109-119: parse the item as an ItemStruct, set up the loop
ParseItem ==
    /\ pc = "parse_item"
    /\ IF actual.kind # "struct"
       THEN /\ Panic("NotAStruct")
            /\ UNCHANGED <<structure, tipe, names, idents, copyscore, looper>>
       ELSE /\ structure' = actual
            /\ tipe' = arguments.field_type
            /\ names' = <<>>
            /\ idents' = <<>>
            /\ copyscore' = <<>>
            /\ looper' = U32Zero
            /\ pc' = "loop"
            /\ UNCHANGED diagnostics
    /\ UNCHANGED <<args, actual, usize_bits, string_args, first_string,
                   arguments, build_length, output>>
    /\ UNCHANGED encode_vars

\* the loop is run for the counts the model's bound admits
WithinBound(count) == count.hi = 0 /\ count.lo <= MaxFieldCount

\* LoopIter without copyscore.clear()
LoopIter_NoClear ==
    /\ pc = "loop"
    /\ WithinBound(arguments.field_count)
    /\ U32Less(looper, arguments.field_count)
    /\ LET pushed == Append(copyscore, "_")
           new_name == encode(looper)
           with_name == pushed \o new_name
       IN /\ names' = Append(names, new_name)
          /\ idents' = Append(idents, with_name)
          /\ looper' = U32Inc(looper)
          /\ copyscore' = with_name
    /\ UNCHANGED <<args, actual, usize_bits, pc, string_args, first_string,
                   arguments, build_length, structure, tipe, output,
                   diagnostics>>
    /\ UNCHANGED encode_vars

\* LoopIter without copyscore.push_str(new_name)
LoopIter_NoPushStr ==
    /\ pc = "loop"
    /\ WithinBound(arguments.field_count)
    /\ U32Less(looper, arguments.field_count)
    /\ LET pushed == Append(copyscore, "_")
           new_name == encode(looper)
       IN /\ names' = Append(names, new_name)
          /\ idents' = Append(idents, pushed)
          /\ looper' = U32Inc(looper)
          /\ copyscore' = <<>>
    /\ UNCHANGED <<args, actual, usize_bits, pc, string_args, first_string,
                   arguments, build_length, structure, tipe, output,
                   diagnostics>>
    /\ UNCHANGED encode_vars

\* lines 120-128: one iteration of the while loop
LoopIter ==
    /\ pc = "loop"
    /\ WithinBound(arguments.field_count)
    /\ U32Less(looper, arguments.field_count)
    /\ LET pushed == Append(copyscore, "_")
           new_name == encode(looper)
           with_name == pushed \o new_name
       IN /\ names' = Append(names, new_name)
          /\ idents' = Append(idents, with_name)
          /\ looper' = U32Inc(looper)
          /\ copyscore' = <<>>
    /\ UNCHANGED <<args, actual, usize_bits, pc, string_args, first_string,
                   arguments, build_length, structure, tipe, output,
                   diagnostics>>
    /\ UNCHANGED encode_vars

\* Emit with the synthesized fields appended to the item's own
Emit_KeepFields ==
    /\ pc = "loop"
    /\ ~U32Less(looper, arguments.field_count)
    /\ output' =
          [kind |-> "struct",
           attrs |-> structure.attrs,
           vis |-> structure.vis,
           ident |-> structure.ident,
           generics |-> structure.generics,
           fields |-> [i \in 1..Len(structure.fields) |->
                         [rename |-> structure.fields[i].ident,
                          ident |-> structure.fields[i].ident,
                          ty |-> structure.fields[i].ty]]
                      \o [i \in 1..Len(names) |->
                            [rename |-> names[i], ident |-> idents[i],
                             ty |-> tipe]]]
    /\ pc' = "done"
    /\ UNCHANGED <<args, actual, usize_bits, string_args, first_string,
                   arguments, build_length, structure, tipe, names, idents,
                   copyscore, looper, diagnostics>>
    /\ UNCHANGED encode_vars

\* lines 129-136: the quote! block, once the loop condition is false
Emit ==
    /\ pc = "loop"
    /\ ~U32Less(looper, arguments.field_count)
    /\ output' =
          [kind |-> "struct",
           attrs |-> structure.attrs,
           vis |-> structure.vis,
           ident |-> structure.ident,
           generics |-> structure.generics,
           fields |-> [i \in 1..Len(names) |->
                         [rename |-> names[i], ident |-> idents[i],
                          ty |-> tipe]]]
    /\ pc' = "done"
    /\ UNCHANGED <<args, actual, usize_bits, string_args, first_string,
                   arguments, build_length, structure, tipe, names, idents,
                   copyscore, looper, diagnostics>>
    /\ UNCHANGED encode_vars

Next ==
    \/ SplitArgs
    \/ ParseTypeArg
    \/ ParseCountArg
    \/ ConvertCount
    \/ ParseItem
    \/ LoopIter
    \/ Emit

Spec == Init /\ [][Next]_vars

\* The invocations whose loop is followed to its end: a type, a count of
\* at most two digits, any item, any host.
LoopArgTexts ==
    {t \o <<",">> \o c :
        t \in {<<"T">>, <<"u", "8">>}, c \in SeqsUpTo({"0", "3", "6"}, 2)}

InitLoop == Init /\ args \in LoopArgTexts

\* the macro runs to completion: no statement waits on anything
FairSpec == InitLoop /\ [][Next]_vars /\ WF_vars(Next)

(***************************************************************************)
(* encode as a pure function: one call per input.                          *)
(***************************************************************************)
InitEncode ==
    /\ args = <<>>
    /\ actual \in {it \in Items : it.ident = "Lazyrray"}
    /\ usize_bits = 64
    /\ pc = "start"
    /\ string_args = <<>>
    /\ first_string = <<>>
    /\ arguments = NoArguments
    /\ build_length = U32Zero
    /\ structure = NoStructure
    /\ tipe = <<>>
    /\ names = <<>>
    /\ idents = <<>>
    /\ copyscore = <<>>
    /\ looper = U32Zero
    /\ output = NoOutput
    /\ diagnostics = <<>>
    /\ enc_n \in EncodeInputs
    /\ enc_pc = "call"
    /\ enc_out = <<>>

EncodeCall ==
    /\ enc_pc = "call"
    /\ enc_out' = encode(enc_n)
    /\ enc_pc' = "ret"
    /\ UNCHANGED enc_n
    /\ UNCHANGED pipeline_vars

NextEncode == EncodeCall

SpecEncode == InitEncode /\ [][NextEncode]_vars

(***************************************************************************)
(* Properties.                                                             *)
(***************************************************************************)
Segments == split(args)

FirstSegment == Head(Segments)

\* the first segment lexes and is a type
FirstIsType ==
    /\ token_stream_from_str(FirstSegment).ok
    /\ parse_arguments(token_stream_from_str(FirstSegment).toks).ok

NoComma(s) == \A i \in 1..Len(s) : s[i] # ","

Distinct(seq) == \A i, j \in 1..Len(seq) : i # j => seq[i] # seq[j]

\* the statements up to and including the parse of the count have run
CountSettled == pc \notin {"start", "parse_type", "parse_count"}

Failure == IF diagnostics = <<>> THEN "none" ELSE diagnostics[1]

\* C1: On success the emitted struct has exactly field_count fields, and
\* its field at position i (from 0, ascending) has identifier "_" followed
\* by base62(i), rename key base62(i) and the type given as first argument;
\* for field_count 0 the field list is empty.
C1_EmittedFields ==
    pc = "done" =>
        /\ WithinBound(arguments.field_count)
        /\ Len(output.fields) = U32Small(arguments.field_count)
        /\ \A i \in 0..(Len(output.fields) - 1) :
              output.fields[i + 1] =
                  [rename |-> encode(U32FromNat(i)),
                   ident |-> <<"_">> \o encode(U32FromNat(i)),
                   ty |-> tokens(FirstSegment)]

C1_Witness ==
    /\ pc = "done"
    /\ Len(output.fields) = 63
    /\ output.fields[62].ident = <<"_", "Z">>
    /\ output.fields[63].rename = <<"1", "0">>
    /\ output.fields[1].ty = <<(<<"u", "8">>)>>

\* C2: In every state, the loop's partial results included, the keys
\* pushed so far are pairwise distinct and the identifiers pushed so far
\* are pairwise distinct; so are those of the emitted field list.
C2_DistinctNames ==
    /\ Distinct(names)
    /\ Distinct(idents)
    /\ pc = "done" =>
          /\ Distinct([i \in 1..Len(output.fields) |-> output.fields[i].ident])
          /\ Distinct([i \in 1..Len(output.fields) |-> output.fields[i].rename])

C2_Witness ==
    /\ pc = "loop"
    /\ Len(names) = 62
    /\ Len(idents) = 62
    /\ U32Less(looper, arguments.field_count)

\* the number a Base62 text denotes, most significant digit first
DigitValue(c) == (CHOOSE i \in 1..62 : Alphabet[i] = c) - 1

RECURSIVE PositionalValue(_, _)
PositionalValue(s, acc) ==
    IF s = <<>> THEN acc
    ELSE PositionalValue(Tail(s),
             U32CheckedAdd(U32CheckedMul(acc, 62).val, DigitValue(Head(s))).val)

\* C3: encode returns for every u32 a non-empty text over the alphabet
\* 0-9 a-z A-Z that denotes its argument in positional base 62, most
\* significant digit first: "0" for 0, "Z" for 61, "10" for 62, "11" for
\* 63, and no leading "0" for any n > 0.
C3_Base62 ==
    enc_pc = "ret" =>
        /\ enc_out # <<>>
        /\ \A i \in 1..Len(enc_out) : IsAlnum(enc_out[i])
        /\ PositionalValue(enc_out, U32Zero) = enc_n
        /\ enc_n = U32Zero => enc_out = <<"0">>
        /\ enc_n = U32FromNat(61) => enc_out = <<"Z">>
        /\ enc_n = U32FromNat(62) => enc_out = <<"1", "0">>
        /\ enc_n = U32FromNat(63) => enc_out = <<"1", "1">>
        /\ enc_n # U32Zero => enc_out[1] # "0"

C3_Witness ==
    /\ enc_pc = "ret"
    /\ enc_n = U32Max
    /\ Len(enc_out) = 6

\* C4: On success the emitted declaration has the attributes (in order),
\* visibility, name and generic parameters of the input struct, and its
\* field list is the synthesized fields only: no field of the input struct
\* appears in it.
C4_SkeletonKept ==
    pc = "done" =>
        /\ output.attrs = actual.attrs
        /\ output.vis = actual.vis
        /\ output.ident = actual.ident
        /\ output.generics = actual.generics
        /\ Len(output.fields) = U32Small(arguments.field_count)
        /\ \A i \in 1..Len(output.fields) :
              /\ output.fields[i].ident = <<"_">> \o output.fields[i].rename
              /\ \A k \in 1..Len(actual.fields) :
                    output.fields[i].ident # actual.fields[k].ident

C4_Witness ==
    /\ pc = "done"
    /\ actual.fields # <<>>
    /\ Len(actual.attrs) = 2
    /\ Len(output.fields) = 3

TextEmpty == <<>>

\* C5: When the argument text is empty the macro fails with the
\* MissingTypeArgument diagnostic ("No arguments were found") and with no
\* other.
C5_EmptyArgumentText ==
    (args = TextEmpty /\ pc \notin {"start", "parse_type"}) =>
        /\ pc = "panicked"
        /\ diagnostics = <<"MissingTypeArgument">>

\* C6 as stated: every non-empty argument text without a comma fails with
\* MissingCountArgument, whether or not its single segment is a type.
C6_NoCommaAlwaysMissingCount ==
    (args # TextEmpty /\ NoComma(args) /\ pc = "panicked") =>
        diagnostics = <<"MissingCountArgument">>

\* C6 as amended: a non-empty argument text without a comma fails with
\* MissingCountArgument when its single segment is a type; the segment is
\* parsed before the count is asked for, so a segment that is not a type
\* fails with InvalidTypeArgument, or with the token-stream failure when it
\* does not lex.
C6_NoCommaFailure ==
    (args # TextEmpty /\ NoComma(args) /\ CountSettled) =>
        /\ pc = "panicked"
        /\ diagnostics =
              IF FirstIsType THEN <<"MissingCountArgument">>
              ELSE IF token_stream_from_str(args).ok
                   THEN <<"InvalidTypeArgument">>
                   ELSE <<"TokenStreamError">>

C6_Witness ==
    /\ args = <<"u", "8">>
    /\ pc = "panicked"
    /\ diagnostics = <<"MissingCountArgument">>

\* a text without the whitespace around it
Core(s) ==
    LET inked == {i \in 1..Len(s) : s[i] # " "}
    IN IF inked = {} THEN <<>>
       ELSE SubSeq(s, CHOOSE i \in inked : \A j \in inked : i <= j,
                      CHOOSE i \in inked : \A j \in inked : i >= j)

StripPlus(s) == IF s # <<>> /\ Head(s) = "+" THEN Tail(s) ELSE s

RECURSIVE StripZeros(_)
StripZeros(s) ==
    IF Len(s) > 1 /\ Head(s) = "0" THEN StripZeros(Tail(s)) ELSE s

\* a <= b for two digit texts of one length
DigitsLeq(a, b) ==
    \/ a = b
    \/ \E i \in 1..Len(a) :
          /\ \A j \in 1..(i - 1) : a[j] = b[j]
          /\ to_digit(a[i]) < to_digit(b[i])

\* s writes a non-negative integer of at most 2^32 - 1 in decimal
IsDecimalU32(s) ==
    LET d == StripPlus(s)
    IN /\ d # <<>>
       /\ \A i \in 1..Len(d) : IsDecDigit(d[i])
       /\ \/ Len(StripZeros(d)) < 10
          \/ Len(StripZeros(d)) = 10 /\ DigitsLeq(StripZeros(d), U32MaxDecimal)

\* the decimal digits of a u32
RECURSIVE DecimalOf(_)
DecimalOf(n) ==
    LET dm == U32DivMod(n, 10)
    IN IF dm.quot = U32Zero THEN <<DecDigits[dm.rem + 1]>>
       ELSE Append(DecimalOf(dm.quot), DecDigits[dm.rem + 1])

\* C7: When the first segment is a type and the second segment, without
\* the whitespace around it, does not write a decimal integer in
\* 0..2^32-1 (it is empty, non-numeric, negative, or too large), the macro
\* fails with InvalidCountArgument; when it does, that integer becomes
\* field_count.
C7_CountArgument ==
    (FirstIsType /\ Len(Segments) >= 2 /\ CountSettled) =>
        IF IsDecimalU32(Core(Segments[2]))
        THEN /\ Failure # "InvalidCountArgument"
             /\ DecimalOf(arguments.field_count) =
                    StripZeros(StripPlus(Core(Segments[2])))
        ELSE /\ pc = "panicked"
             /\ diagnostics = <<"InvalidCountArgument">>

C7_Witness ==
    /\ FirstIsType
    /\ Len(Segments) >= 2
    /\ Segments[2] = <<" ", "4", "2", "9", "4", "9", "6", "7", "2", "9", "5", " ">>
    /\ pc = "parse_item"
    /\ arguments.field_count = U32Max

\* C8: A failed check ends the invocation: the macro is then in its error
\* state with exactly one diagnostic, no statement runs after it, and no
\* declaration is emitted; a declaration is emitted only by an invocation
\* that reported no diagnostic and passed every check.
C8_FailureIsTerminal ==
    /\ pc = "panicked" =>
          /\ Len(diagnostics) = 1
          /\ output = NoOutput
          /\ ~ENABLED Next
    /\ pc # "panicked" => diagnostics = <<>>
    /\ output # NoOutput =>
          /\ pc = "done"
          /\ diagnostics = <<>>
          /\ FirstIsType
          /\ Len(Segments) >= 2
          /\ IsDecimalU32(Core(Segments[2]))
          /\ actual.kind = "struct"

C8_Witness ==
    /\ pc = "panicked"
    /\ diagnostics = <<"NotAStruct">>
    /\ arguments.field_count = U32FromNat(63)
    /\ output = NoOutput

\* how deep in brackets the end of s is
NestingDepth(s) ==
    Cardinality({i \in 1..Len(s) : s[i] \in {"<", "("}})
        - Cardinality({i \in 1..Len(s) : s[i] \in {">", ")"}})

TopLevelCommas(s) ==
    {k \in 1..Len(s) : s[k] = "," /\ NestingDepth(SubSeq(s, 1, k - 1)) = 0}

\* the text before the first comma that is outside every bracket
TopLevelFirst(s) ==
    IF TopLevelCommas(s) = {} THEN s
    ELSE SubSeq(s, 1, (CHOOSE k \in TopLevelCommas(s) :
                          \A j \in TopLevelCommas(s) : k <= j) - 1)

\* C9: The argument text is split at its first top-level comma: for a text
\* whose brackets are balanced, the first segment is the whole text before
\* the first comma outside every bracket, so a type with a comma of its
\* own followed by ", 3" is parsed as the type.
C9_SplitAtTopLevelComma ==
    (pc # "start" /\ NestingDepth(args) = 0 /\ TopLevelCommas(args) # {}) =>
        /\ first_string = TopLevelFirst(args)
        /\ (TopLevelFirst(args) = <<"M", "<", "K", ",", "V", ">">>
              /\ pc = "panicked") => Failure # "InvalidTypeArgument"

\* the loop invariant at the head of the while loop
LoopInvariant ==
    pc = "loop" =>
        /\ U32Leq(looper, arguments.field_count)
        /\ looper.hi = 0
        /\ copyscore = <<>>
        /\ Len(names) = looper.lo
        /\ Len(idents) = looper.lo

====
